---------------------------- MODULE Spec2Model ----------------------------
(***************************************************************************)
(* The place-resolution and enrichment pipeline of WikiGeo-Explorer-TTS:   *)
(* app/main.py (lookup), app/wiki.py (provider calls, normalize) and       *)
(* app/genai.py (condensing and translation).                              *)
(*                                                                         *)
(* A Python str is a sequence of one-character strings.  An Optional value *)
(* is None (the empty tuple) or Some(v) (the one-element tuple <<v>>), so  *)
(* that None and the empty string stay distinct.  A coroutine that may     *)
(* raise returns Ok(v) or Raised.                                          *)
(***************************************************************************)
EXTENDS Integers, Sequences, FiniteSets, TLC

\* ------------------------------------------------------------------ bounds
\* Most candidates the geo-search provider returns in one lookup.
MaxCands == 2
\* Most requests of one lookup that the generative backend fails (it raises
\* or answers nothing).
MaxGenFailures == 1
\* Longest text, and largest line count, the line-enforcement runs draw.
MaxTextLen == 4
MaxLines == 2

\* ------------------------------------------------------- Python primitives
None == <<>>
Some(v) == <<v>>
Ok(v) == [raised |-> FALSE, val |-> v]
Raised == [raised |-> TRUE, val |-> None]

\* bool(x) of an Optional[str]: None and "" are falsy.
Truthy(o) == o # None /\ o[1] # <<>>
\* `o or ""` of an Optional[str]
OrEmpty(o) == IF Truthy(o) THEN o[1] ELSE <<>>

\* Characters str.strip() and the regex class \s take for white space.
WS == {" ", "\n", "\t"}
\* The regex class [.!?]
Punct == {".", "!", "?"}
\* The one character U+2026 that the clipping code appends.
Ellipsis == "ELLIPSIS"

\* str.strip()
strip(t) ==
    IF \A i \in 1..Len(t) : t[i] \in WS THEN <<>>
    ELSE LET a == CHOOSE i \in 1..Len(t) :
                      t[i] \notin WS /\ \A j \in 1..(i - 1) : t[j] \in WS
             b == CHOOSE i \in 1..Len(t) :
                      t[i] \notin WS /\ \A j \in (i + 1)..Len(t) : t[j] \in WS
         IN  SubSeq(t, a, b)

\* Position p starts a match of (?<=[.!?])\s+ in t.
SplitAt(t, p) == p > 1 /\ t[p] \in WS /\ t[p - 1] \in Punct

\* re.split(r"(?<=[.!?])\s+", t), from position `from` on: the pieces between
\* the maximal white-space runs that follow '.', '!' or '?'.
RECURSIVE re_split_from(_, _)
re_split_from(t, from) ==
    IF \A p \in from..Len(t) : ~SplitAt(t, p)
    THEN <<SubSeq(t, from, Len(t))>>
    ELSE LET p == CHOOSE q \in from..Len(t) :
                      SplitAt(t, q) /\ \A r \in from..(q - 1) : ~SplitAt(t, r)
             e == IF \A q \in p..Len(t) : t[q] \in WS THEN Len(t)
                  ELSE (CHOOSE q \in p..Len(t) :
                            t[q] \notin WS /\ \A r \in p..(q - 1) : t[r] \in WS) - 1
         IN  <<SubSeq(t, from, p - 1)>> \o re_split_from(t, e + 1)

re_split(t) == re_split_from(t, 1)

\* sep.join(parts)
RECURSIVE join(_, _)
join(sep, parts) ==
    IF parts = <<>> THEN <<>>
    ELSE IF Len(parts) = 1 THEN parts[1]
    ELSE parts[1] \o sep \o join(sep, Tail(parts))

\* parts[:n]
Take(parts, n) == SubSeq(parts, 1, IF n < Len(parts) THEN n ELSE Len(parts))

\* t.rsplit(" ", 1)[0]: t up to its last space, or all of t without one.
rsplit_head(t) ==
    IF \A i \in 1..Len(t) : t[i] # " " THEN t
    ELSE LET i == CHOOSE k \in 1..Len(t) :
                      t[k] = " " /\ \A j \in (k + 1)..Len(t) : t[j] # " "
         IN  SubSeq(t, 1, i - 1)

\* Number of lines of a text: one more than its line breaks.
LineCount(t) == 1 + Cardinality({i \in 1..Len(t) : t[i] = "\n"})

\* The text of n copies of the character c.
Rep(c, n) == [i \in 1..n |-> c]

\* ------------------------------------------------------------ app/genai.py
\* genai._fallback_shorten
_fallback_shorten(text, max_chars, approx_sentences) ==
    IF text = <<>> THEN <<>>
    ELSE LET parts == re_split(strip(text))
             clipped == join(<<" ">>, Take(parts, IF approx_sentences > 1
                                                  THEN approx_sentences ELSE 1))
         IN  IF Len(clipped) > max_chars
             THEN rsplit_head(SubSeq(clipped, 1, max_chars)) \o <<Ellipsis>>
             ELSE clipped


\* ----------------------------------------------------------- configuration
VARIABLES
    GEMINI_API_KEY,     \* settings.GEMINI_API_KEY, fixed for the process
    req_lang            \* LookupRequest.lang: None or Some(text)

\* settings.DEFAULT_LANG
DEFAULT_LANG == <<"e", "n">>
EN == <<"e", "n">>

\* The keys of settings.SUPPORTED_LANGS
SUPPORTED_LANGS ==
    { <<"e", "n">>, <<"d", "e">>, <<"f", "r">>, <<"e", "s">>, <<"i", "t">>,
      <<"a", "r">>, <<"z", "h">>, <<"j", "a">>, <<"r", "u">>, <<"n", "l">>,
      <<"p", "t">>, <<"f", "a">>, <<"u", "r">>, <<"b", "n">>, <<"p", "l">>,
      <<"s", "v">>, <<"n", "o">>, <<"d", "a">>, <<"f", "i">>, <<"h", "u">>,
      <<"t", "r">>, <<"h", "i">> }

\* str.lower(), on the letters the requests of the model use.
LowerChar(c) ==
    CASE c = "D" -> "d" [] c = "E" -> "e" [] c = "N" -> "n"
      [] c = "X" -> "x" [] OTHER -> c
lower(t) == [i \in 1..Len(t) |-> LowerChar(t[i])]

\* genai.enabled
enabled == GEMINI_API_KEY # <<>>

\* What a call of the generative backend gives: it raises, or it answers with
\* resp.text None or a string.
GenText == <<"U", "n", "o", ".", " ", "D", "o", "s", ".">>
GenResponses ==
    { Raised, Ok(None), Ok(Some(<<" ", "\n">>)), Ok(Some(<<" ">> \o GenText)) }

\* The answer's text as the callers read it: (resp.text or "").strip()
GenOut(resp) == strip(OrEmpty(resp.val))

\* text[:max_chars].rsplit(" ", 1)[0] + "…"
Clip(t, max_chars) == rsplit_head(SubSeq(t, 1, max_chars)) \o <<Ellipsis>>

\* genai.summarize_to_length, given the backend's answer to its one request.
summarize_to_length(text, lang, sentences, max_chars, resp) ==
    IF text = <<>> THEN <<>>
    ELSE IF ~enabled THEN _fallback_shorten(text, max_chars, sentences)
    ELSE IF resp.raised THEN _fallback_shorten(text, max_chars, sentences)
    ELSE LET out == GenOut(resp)
         IN  IF out = <<>> THEN _fallback_shorten(text, max_chars, sentences)
             ELSE IF Len(out) > max_chars THEN Clip(out, max_chars)
             ELSE out

\* genai.translate_text of an Optional[str], given the backend's answer.
translate_text(text, target_lang, resp) ==
    IF ~Truthy(text) THEN <<>>
    ELSE IF ~enabled THEN text[1]
    ELSE IF resp.raised THEN text[1]
    ELSE IF GenOut(resp) # <<>> THEN GenOut(resp) ELSE text[1]

\* enforce_lines as each line break ending its line.
enforce_lines_terminated(text, n) ==
    LET units == Take(re_split(text), n)
    IN  join(<<>>, [i \in 1..Len(units) |-> units[i] \o <<"\n">>])

\* genai.enforce_lines, which main.py imports: split into sentence units at
\* '.', '!' or '?' followed by white space, keep at most n, join with line
\* breaks.
enforce_lines(text, n) == join(<<"\n">>, Take(re_split(text), n))

\* ------------------------------------------------------------- app/wiki.py
\* A JSON object is a function from its keys; d.get(k) is None for a key the
\* object lacks.
EmptyDict == <<>>
get(d, k) == IF k \in DOMAIN d THEN Some(d[k]) ELSE None
\* d.get(k, {}) and (d.get(k) or {}) of an object-valued key
get_dict(d, k) == IF k \in DOMAIN d THEN d[k] ELSE EmptyDict
\* bool(x) of an Optional[dict]: None and {} are falsy.
TruthyDict(o) == o # None /\ DOMAIN o[1] # {}
\* `a or b` of two Optional[str]
Or(a, b) == IF Truthy(a) THEN a ELSE b

\* What one HTTP GET gives: a transport failure or a non-success status
\* (err), or a JSON body.
HttpError == [err |-> TRUE, body |-> EmptyDict]
HttpOk(body) == [err |-> FALSE, body |-> body]

\* wiki._get_json: raise_for_status() raises httpx.HTTPError.
_get_json(r) == IF r.err THEN Raised ELSE Ok(r.body)

\* wiki.geosearch_en: no except clause.
geosearch_en(r) ==
    LET data == _get_json(r)
    IN  IF data.raised THEN Raised
        ELSE LET q == get_dict(data.val, "query")
             IN  Ok(IF "geosearch" \in DOMAIN q THEN q.geosearch ELSE <<>>)

\* next(iter(pages.values()))
FirstValue(pages) == pages[CHOOSE k \in DOMAIN pages : TRUE]

\* wiki.wikidata_qid_for_pageid: no except clause.
wikidata_qid_for_pageid(r) ==
    LET data == _get_json(r)
    IN  IF data.raised THEN Raised
        ELSE LET pages == get_dict(get_dict(data.val, "query"), "pages")
             IN  IF DOMAIN pages = {} THEN Ok(None)
                 ELSE Ok(get(get_dict(FirstValue(pages), "pageprops"),
                             "wikibase_item"))

\* f"{lang}wiki"
WikiKey(lang) == lang \o <<"w", "i", "k", "i">>

\* wiki.title_in_lang_from_qid, called with a truthy qid: no except clause.
title_in_lang_from_qid(qid, lang, r) ==
    LET data == _get_json(r)
    IN  IF data.raised THEN Raised
        ELSE LET ent == get_dict(get_dict(data.val, "entities"), qid)
                 link == get_dict(get_dict(ent, "sitelinks"), WikiKey(lang))
             IN  IF Truthy(get(link, "title")) THEN Ok(get(link, "title"))
                 ELSE Ok(None)

\* str.endswith
endswith(t, suf) ==
    Len(t) >= Len(suf) /\ SubSeq(t, Len(t) - Len(suf) + 1, Len(t)) = suf

ProblemJson == <<"p", "r", "o", "b", "l", "e", "m", "+", "j", "s", "o", "n">>

\* wiki.summary_in_lang: httpx.HTTPError and a problem+json body give None.
summary_in_lang(r) ==
    LET data == _get_json(r)
    IN  IF data.raised THEN None
        ELSE IF endswith(OrEmpty(get(data.val, "type")), ProblemJson) THEN None
        ELSE Some(data.val)

\* wiki.full_extract: httpx.HTTPError, no page and a blank extract give None.
full_extract(r) ==
    LET data == _get_json(r)
    IN  IF data.raised THEN None
        ELSE LET pages == get_dict(get_dict(data.val, "query"), "pages")
             IN  IF DOMAIN pages = {} THEN None
                 ELSE LET txt == get(FirstValue(pages), "extract")
                      IN  IF txt # None /\ strip(txt[1]) # <<>>
                          THEN Some(strip(txt[1])) ELSE None

\* wiki.normalize tagging the record with the language of the English edition.
normalize_en(candidate, s, lang) ==
    [ title              |-> Or(get(s, "title"), get(candidate, "title")),
      normalized_title   |-> Or(get(get_dict(s, "titles"), "normalized"),
                                get(s, "title")),
      description        |-> get(s, "description"),
      extract            |-> get(s, "extract"),
      coordinates        |-> [lat |-> get(candidate, "lat"),
                              lng |-> get(candidate, "lon")],
      page_url           |-> get(get_dict(get_dict(s, "content_urls"),
                                          "desktop"), "page"),
      thumbnail_url      |-> get(get_dict(s, "thumbnail"), "source"),
      original_image_url |-> get(get_dict(s, "originalimage"), "source"),
      pageid             |-> get(candidate, "pageid"),
      lang               |-> EN ]

\* wiki.normalize
normalize(candidate, s, lang) ==
    [ title              |-> Or(get(s, "title"), get(candidate, "title")),
      normalized_title   |-> Or(get(get_dict(s, "titles"), "normalized"),
                                get(s, "title")),
      description        |-> get(s, "description"),
      extract            |-> get(s, "extract"),
      coordinates        |-> [lat |-> get(candidate, "lat"),
                              lng |-> get(candidate, "lon")],
      page_url           |-> get(get_dict(get_dict(s, "content_urls"),
                                          "desktop"), "page"),
      thumbnail_url      |-> get(get_dict(s, "thumbnail"), "source"),
      original_image_url |-> get(get_dict(s, "originalimage"), "source"),
      pageid             |-> get(candidate, "pageid"),
      lang               |-> lang ]

\* ------------------------------------------------- the providers' answers
Letters == <<"A", "B", "C", "D">>
Digits == <<"1", "2", "3", "4">>
DE == <<"d", "e">>

\* The k-th row of the geosearch list: pageid, title, lat, lon.
Cand(k) == [pageid |-> k, title |-> <<Letters[k]>>, lat |-> k, lon |-> k]
\* str(pageid), as EN_PAGEPROPS_API.format writes it into the URL
PageidText(pageid) == <<Digits[pageid]>>
Qid(c) == <<"Q">> \o PageidText(c.pageid)
\* The title of the German edition of a candidate's entity.
LocTitle(c) == c.title \o <<"x">>

\* The answers of one provider form a sequence; a caller draws an index.
GeoResponses ==
    <<HttpError, HttpOk(EmptyDict)>>
    \o [n \in 1..(MaxCands + 1) |->
           HttpOk([query |-> [geosearch |-> [k \in 1..(n - 1) |-> Cand(k)]]])]

PagepropsResponses(c) ==
    << HttpError,
      HttpOk([query |-> [pages |-> EmptyDict]]),
      HttpOk([query |-> [pages |-> (c.pageid :> [pageid |-> c.pageid])]]),
      HttpOk([query |-> [pages |-> (c.pageid :>
                 [pageid |-> c.pageid,
                  pageprops |-> [wikibase_item |-> Qid(c)]])]]) >>

\* An entity's sitelinks: none, the English edition only (whose title is the
\* candidate's), or the English and the German edition.
Sitelinks(c) ==
    << EmptyDict,
      (WikiKey(EN) :> [title |-> c.title]),
      (WikiKey(EN) :> [title |-> c.title]) @@ (WikiKey(DE) :> [title |-> LocTitle(c)]) >>

EntityResponses(q, c) ==
    <<HttpError>>
    \o [i \in 1..Len(Sitelinks(c)) |->
           HttpOk([entities |-> (q :> [sitelinks |-> Sitelinks(c)[i]])])]

Descr == <<"t", "o", "w", "e", "r">>
Extr == <<"H", "i", ".", " ", "Y", "o", "!">>
Url == <<"u">>

\* The summary service's answers for a title: a failure, its problem+json
\* body, an empty object, and two payloads (complete; no title, description
\* or extract and an empty thumbnail source).
SummaryResponses(title) ==
    << HttpError,
      HttpOk([type |-> <<"/">> \o ProblemJson, title |-> <<"N", "o">>]),
      HttpOk(EmptyDict),
      HttpOk([type |-> <<"s">>, title |-> title,
              titles |-> [normalized |-> title],
              description |-> Descr, extract |-> Extr,
              thumbnail |-> [source |-> Url],
              originalimage |-> [source |-> Url],
              content_urls |-> [desktop |-> [page |-> Url \o title]]]),
      HttpOk([type |-> <<"s">>, thumbnail |-> [source |-> <<>>]]) >>

\* The article text the extracts API holds for (title, lang).
ExtractBody(title, lang) ==
    <<" ">> \o title \o <<" ">> \o lang \o <<".", " ", "Z", "z", ".", "\n">>

ExtractResponses(title, lang) ==
    << HttpError,
      HttpOk(EmptyDict),
      HttpOk([query |-> [pages |-> (1 :> [extract |-> <<" ">>])]]),
      HttpOk([query |-> [pages |-> (1 :> [extract |-> ExtractBody(title, lang)])]]) >>

\* LookupRequest.lang of the requests drawn: none, upper case, unsupported.
RequestLangs == {None, Some(<<"D", "E">>), Some(<<"X", "X">>)}
ApiKeys == {<<>>, <<"k">>}

\* ------------------------------------------------------ app/main.py: lookup
VARIABLES
    pc,                 \* where the handler stands: the await it is at
    language,           \* the resolved target language
    raw,                \* the geosearch list
    idx,                \* position of the loop `for c in raw`
    qid, target_title, s, used_en_fallback, place, base_more,   \* loop locals
    short_text, more_text,
    enriched,           \* the records appended so far
    response,           \* None, or Some(LookupResponse) once returned
    \* history, read by the properties only
    calls,              \* provider calls issued for the current candidate
    s_site, ext_site,   \* the attempt s and base_more came from
    norm_place,         \* the record as normalize returned it
    title_out,          \* what the backend gave for the title, if anything
    summary_ok,         \* pageids for which a summary fetch gave a payload
    emitted,            \* how the record just appended was built, else None
    more_src,           \* the text the long condensing was asked to condense
    gen_failures,       \* backend requests that failed so far
    raised_by,          \* the call whose exception left the handler
    geo_err             \* the geo-search provider failed

\* The text runs: genai's condensing and the line enforcement of lookup
\* applied to one source text.
VARIABLES
    t_pc,               \* the step a text run is at
    t_text,             \* the source text
    t_field,            \* the field of the summary that holds it
    t_n,                \* the line count asked of enforce_lines
    t_once, t_twice,    \* enforce_lines applied once, and again to the result
    t_wider,            \* the result enforced again at lookup's wider count
    t_st, t_mt,         \* short_text and more_text (main.py 91, 97)
    t_short, t_more     \* short_summary and more_summary (main.py 111, 112)

lookupVars ==
    <<pc, language, raw, idx, qid, target_title, s, used_en_fallback, place,
      base_more, short_text, more_text, enriched, response, calls, s_site,
      ext_site, norm_place, title_out, summary_ok, emitted, more_src,
      gen_failures, raised_by, geo_err>>
cfgVars == <<GEMINI_API_KEY, req_lang>>
localVars ==
    <<qid, target_title, s, used_en_fallback, place, base_more, short_text,
      more_text, s_site, ext_site, norm_place, title_out>>
textVars ==
    <<t_pc, t_text, t_field, t_n, t_once, t_twice, t_wider, t_st, t_mt,
      t_short, t_more>>
vars == <<GEMINI_API_KEY, req_lang, lookupVars, textVars>>

\* The literals of lookup's two condensing calls and enforce_lines calls.
ShortSentences == 5
ShortMaxChars == 700
MoreSentences == 15
MoreMaxChars == 3000
ShortLines == 5
MoreLines == 15

\* main.py 56-58
ResolveLanguage(lang) ==
    LET l == lower(IF Truthy(lang) THEN lang[1] ELSE DEFAULT_LANG)
    IN  IF l \in SUPPORTED_LANGS THEN l ELSE EN

\* main.py 73 taken for unconditional: the English summary is always fetched.
NeedEnglishAlways(summary) == TRUE
\* main.py 73: `if not s`
NeedEnglish(summary) == ~TruthyDict(summary)

\* main.py 114 as an insert at the front
AppendPlaceFront(list, p) == <<p>> \o list
\* main.py 114: enriched.append(place)
AppendPlace(list, p) == Append(list, p)

\* main.py 119-120 without the thumbnail preference
SelectBestFirst(list) == list[1]
\* main.py 119-120: (with_img or enriched)[0]
SelectBest(list) ==
    LET with_img == SelectSeq(list, LAMBDA p : Truthy(p.thumbnail_url))
    IN  IF with_img # <<>> THEN with_img[1] ELSE list[1]

\* Place(**p): the response model adds ai_blurb, which lookup leaves None.
Place(p) == p @@ [ai_blurb |-> None]

\* main.py 116-127
Finish(list) ==
    IF list = <<>> THEN [best |-> None, candidates |-> <<>>]
    ELSE [best |-> Some(Place(SelectBest(list))),
          candidates |-> [i \in 1..Len(list) |-> Place(list[i])]]

\* main.py 81-83: " ".join(filter(None, [title, description, extract])).strip()
BaseShort(p) ==
    LET parts == SelectSeq(<<p.title, p.description, p.extract>>, Truthy)
    IN  strip(join(<<" ">>, [i \in 1..Len(parts) |-> parts[i][1]]))

\* One entry of the call history.
Call(op, site, arg, lang, hit) ==
    [op |-> op, site |-> site, arg |-> arg, lang |-> lang, hit |-> hit]

\* What the translation backend produced for a field, None when it was not
\* consulted, raised or answered nothing.
TrOut(consulted, resp) ==
    IF enabled /\ consulted /\ ~resp.raised /\ GenOut(resp) # <<>>
    THEN Some(GenOut(resp)) ELSE None

\* No text run is under way.
TextIdle ==
    /\ t_pc = "off" /\ t_text = <<>> /\ t_field = "none" /\ t_n = 0
    /\ t_once = None /\ t_twice = None /\ t_wider = None
    /\ t_st = None /\ t_mt = None
    /\ t_short = None /\ t_more = None

\* The handler's state on entry, before line 56.
LookupEntry ==
    /\ language = <<>>
    /\ raw = <<>>
    /\ idx = 0
    /\ qid = None /\ target_title = None /\ s = None
    /\ used_en_fallback = FALSE
    /\ place = None /\ base_more = None
    /\ short_text = None /\ more_text = None
    /\ norm_place = None /\ title_out = None
    /\ enriched = <<>>
    /\ response = None
    /\ calls = <<>>
    /\ s_site = "none" /\ ext_site = "none"
    /\ summary_ok = {}
    /\ emitted = None
    /\ more_src = None
    /\ gen_failures = 0
    /\ raised_by = "none"
    /\ geo_err = FALSE

Init ==
    /\ GEMINI_API_KEY \in ApiKeys
    /\ req_lang \in RequestLangs
    /\ pc = "geosearch"
    /\ LookupEntry
    /\ TextIdle

\* The handler is left by an exception of the awaited call.
Raise(by) ==
    /\ pc' = "raised"
    /\ raised_by' = by

\* The loop body ends (continue, or after append) with `list` the records so
\* far: on to the next candidate, or past the loop to the return (116-127).
\* The locals are dead until the next iteration assigns them again, and the
\* call history starts anew with the next candidate.
Advance(list) ==
    /\ enriched' = list
    /\ IF idx < Len(raw)
       THEN idx' = idx + 1 /\ pc' = "qid" /\ response' = None
       ELSE idx' = idx /\ pc' = "done" /\ response' = Some(Finish(list))
    /\ qid' = None /\ target_title' = None /\ s' = None
    /\ used_en_fallback' = FALSE
    /\ place' = None /\ base_more' = None
    /\ short_text' = None /\ more_text' = None
    /\ norm_place' = None /\ title_out' = None
    /\ calls' = <<>>
    /\ s_site' = "none" /\ ext_site' = "none"

\* main.py 56-62: resolve the language, await the geo-search.
GeoSearch ==
    /\ pc = "geosearch"
    /\ language' = ResolveLanguage(req_lang)
    /\ \E i \in DOMAIN GeoResponses :
         LET r == geosearch_en(GeoResponses[i])
         IN  /\ geo_err' = GeoResponses[i].err
             /\ IF r.raised
                THEN Raise("geosearch") /\ UNCHANGED <<raw, idx, response>>
                ELSE /\ raw' = r.val
                     /\ raised_by' = raised_by
                     /\ IF r.val = <<>>
                        THEN /\ pc' = "done" /\ idx' = idx
                             /\ response' = Some([best |-> None,
                                                  candidates |-> <<>>])
                        ELSE pc' = "qid" /\ idx' = 1 /\ response' = response
    /\ UNCHANGED <<cfgVars, localVars, enriched, calls, summary_ok, emitted,
                   more_src, gen_failures, textVars>>

\* main.py 66: await wiki.wikidata_qid_for_pageid(c["pageid"])
ResolveQid ==
    /\ pc = "qid"
    /\ LET c == raw[idx]
       IN  \E i \in DOMAIN PagepropsResponses(c) :
             LET r == wikidata_qid_for_pageid(PagepropsResponses(c)[i])
             IN  /\ calls' = Append(calls, Call("pageprops", "qid",
                                  PageidText(c.pageid), EN,
                                  ~r.raised /\ Truthy(r.val)))
                 /\ IF r.raised
                    THEN Raise("qid") /\ qid' = qid
                    ELSE /\ qid' = r.val
                         /\ raised_by' = raised_by
                         /\ pc' = IF Truthy(r.val) THEN "title" ELSE "sum_en"
    /\ emitted' = None
    /\ more_src' = None
    /\ UNCHANGED <<cfgVars, language, raw, idx, target_title, s,
                   used_en_fallback, place, base_more, short_text, more_text,
                   s_site, ext_site, norm_place, title_out, enriched, response,
                   summary_ok, gen_failures, geo_err, textVars>>

\* main.py 67: await wiki.title_in_lang_from_qid(qid, language)
ResolveTitle ==
    /\ pc = "title"
    /\ LET c == raw[idx]
       IN  \E i \in DOMAIN EntityResponses(qid[1], c) :
             LET r == title_in_lang_from_qid(qid[1], language,
                                             EntityResponses(qid[1], c)[i])
             IN  /\ calls' = Append(calls, Call("entity", "title", qid[1],
                                  <<>>, ~r.raised /\ Truthy(r.val)))
                 /\ IF r.raised
                    THEN Raise("title") /\ target_title' = target_title
                    ELSE /\ target_title' = r.val
                         /\ raised_by' = raised_by
                         /\ pc' = IF Truthy(r.val) THEN "sum_loc" ELSE "sum_en"
    /\ UNCHANGED <<cfgVars, language, raw, idx, qid, s, used_en_fallback,
                   place, base_more, short_text, more_text, s_site, ext_site,
                   norm_place, title_out, enriched, response, summary_ok,
                   emitted, more_src, gen_failures, geo_err, textVars>>

\* main.py 71-72: await wiki.summary_in_lang(target_title, language)
SummaryLocalized ==
    /\ pc = "sum_loc"
    /\ LET c == raw[idx]
           t == target_title[1]
       IN  \E i \in DOMAIN SummaryResponses(t) :
             LET r == summary_in_lang(SummaryResponses(t)[i])
             IN  /\ s' = r
                 /\ calls' = Append(calls, Call("summary", "localized", t,
                                                language, TruthyDict(r)))
                 /\ summary_ok' = IF TruthyDict(r)
                                  THEN summary_ok \cup {c.pageid} ELSE summary_ok
                 /\ IF NeedEnglish(r)
                    THEN pc' = "sum_en" /\ UNCHANGED <<place, norm_place, s_site>>
                    ELSE /\ place' = Some(normalize(c, r[1], language))
                         /\ norm_place' = place'
                         /\ s_site' = "localized"
                         /\ pc' = "ext_loc"
    /\ UNCHANGED <<cfgVars, language, raw, idx, qid, target_title,
                   used_en_fallback, base_more, short_text, more_text, ext_site,
                   title_out, enriched, response, emitted, more_src,
                   gen_failures, raised_by, geo_err, textVars>>

\* main.py 73-79: await wiki.summary_in_lang(c["title"], "en"); continue
\* without a summary, else normalize.
SummaryEnglish ==
    /\ pc = "sum_en"
    /\ LET c == raw[idx]
       IN  \E i \in DOMAIN SummaryResponses(c.title) :
             LET r == summary_in_lang(SummaryResponses(c.title)[i])
             IN  /\ summary_ok' = IF TruthyDict(r)
                                  THEN summary_ok \cup {c.pageid} ELSE summary_ok
                 /\ IF ~TruthyDict(r)
                    THEN Advance(enriched)
                    ELSE /\ s' = r
                         /\ used_en_fallback' = TRUE
                         /\ calls' = Append(calls, Call("summary", "english",
                                                        c.title, EN, TRUE))
                         /\ place' = Some(normalize(c, r[1], language))
                         /\ norm_place' = place'
                         /\ s_site' = "english"
                         /\ pc' = IF Truthy(target_title)
                                  THEN "ext_loc" ELSE "ext_en"
                         /\ UNCHANGED <<idx, qid, target_title, base_more,
                                        short_text, more_text, ext_site,
                                        title_out, enriched, response>>
    /\ UNCHANGED <<cfgVars, language, raw, emitted, more_src, gen_failures,
                   raised_by, geo_err, textVars>>

\* main.py 86-87: await wiki.full_extract(target_title, language)
ExtractLocalized ==
    /\ pc = "ext_loc"
    /\ LET t == target_title[1]
       IN  \E i \in DOMAIN ExtractResponses(t, language) :
             LET r == full_extract(ExtractResponses(t, language)[i])
             IN  /\ base_more' = r
                 /\ calls' = Append(calls, Call("extract", "localized", t,
                                                language, Truthy(r)))
                 /\ IF Truthy(r)
                    THEN pc' = "cond_short" /\ ext_site' = "localized"
                    ELSE pc' = "ext_en" /\ ext_site' = ext_site
    /\ UNCHANGED <<cfgVars, language, raw, idx, qid, target_title, s,
                   used_en_fallback, place, short_text, more_text, s_site,
                   norm_place, title_out, enriched, response, summary_ok,
                   emitted, more_src, gen_failures, raised_by, geo_err, textVars>>

\* main.py 88-89: await wiki.full_extract(c["title"], "en")
ExtractEnglish ==
    /\ pc = "ext_en"
    /\ LET c == raw[idx]
       IN  \E i \in DOMAIN ExtractResponses(c.title, EN) :
             LET r == full_extract(ExtractResponses(c.title, EN)[i])
             IN  /\ base_more' = r
                 /\ calls' = Append(calls, Call("extract", "english", c.title,
                                                EN, Truthy(r)))
                 /\ ext_site' = IF Truthy(r) THEN "english" ELSE "none"
                 /\ pc' = "cond_short"
    /\ UNCHANGED <<cfgVars, language, raw, idx, qid, target_title, s,
                   used_en_fallback, place, short_text, more_text, s_site,
                   norm_place, title_out, enriched, response, summary_ok,
                   emitted, more_src, gen_failures, raised_by, geo_err, textVars>>

\* main.py 111: the short summary of a record
ShortSummary(st, extract) ==
    enforce_lines(IF st # <<>> THEN st ELSE OrEmpty(extract), ShortLines)

\* main.py 112: the long summary of a record
MoreSummary(mt, short_summary) ==
    enforce_lines(IF mt # <<>> THEN mt ELSE short_summary, MoreLines)

\* main.py 111-114: the line enforcement and the append, with p the record
\* after the translations and st, mt the condensed texts; tout and dout are
\* what the backend gave for title and description.
Emit(p, st, mt, tout, dout) ==
    LET short_summary == ShortSummary(st, p.extract)
        more_summary == MoreSummary(mt, short_summary)
        final == p @@ [short_summary |-> Some(short_summary),
                       more_summary |-> Some(more_summary)]
    IN  /\ Advance(AppendPlace(enriched, final))
        /\ emitted' = Some(
               [used_en |-> used_en_fallback,
                s_site |-> s_site,
                norm |-> norm_place[1],
                title_out |-> tout,
                descr_out |-> dout,
                ext_site |-> ext_site,
                ext_calls |-> SelectSeq(calls, LAMBDA c : c.op = "extract"),
                base_more |-> base_more,
                short_text |-> st,
                more_text |-> mt])

\* main.py 104 without its language test
NeedTranslationAnyLang == used_en_fallback
\* main.py 104: `if used_en_fallback and language != "en"`
NeedTranslation == used_en_fallback /\ language # EN

\* The backend fails a request: it raises or answers nothing.
GenFails(r) == r.raised \/ GenOut(r) = <<>>

\* The answers a request over `text` may get.  summarize_to_length and
\* translate_text send none when the backend is off or the text is empty.
GenDraw(text) ==
    IF enabled /\ text # <<>>
    THEN {r \in GenResponses : GenFails(r) => gen_failures < MaxGenFailures}
    ELSE {Ok(None)}

GenCount(text, r) ==
    gen_failures' = IF enabled /\ text # <<>> /\ GenFails(r)
                    THEN gen_failures + 1 ELSE gen_failures

\* main.py 91-96: await genai.summarize_to_length(..., 5, 700)
CondenseShort ==
    /\ pc = "cond_short"
    /\ LET base_short == BaseShort(place[1])
           text == IF base_short # <<>> THEN base_short ELSE OrEmpty(base_more)
       IN  \E r \in GenDraw(text) :
             /\ short_text' = Some(summarize_to_length(text, language,
                                       ShortSentences, ShortMaxChars, r))
             /\ GenCount(text, r)
    /\ pc' = "cond_more"
    /\ UNCHANGED <<cfgVars, language, raw, idx, qid, target_title, s,
                   used_en_fallback, place, base_more, more_text, s_site,
                   ext_site, norm_place, title_out, enriched, response, calls,
                   summary_ok, emitted, more_src, raised_by, geo_err, textVars>>

\* main.py 98 preferring the summary's extract to the full extract
MoreSourceExtractFirst(full, p) ==
    IF Truthy(p.extract) THEN p.extract[1] ELSE OrEmpty(full)
\* main.py 98: base_more or (place.get("extract") or "")
MoreSource(full, p) ==
    IF Truthy(full) THEN full[1] ELSE OrEmpty(p.extract)

\* main.py 97-104: await genai.summarize_to_length(..., 15, 3000); without a
\* translation to make, on to lines 111-114.
CondenseMore ==
    /\ pc = "cond_more"
    /\ LET text == MoreSource(base_more, place[1])
       IN  \E r \in GenDraw(text) :
             LET m == summarize_to_length(text, language, MoreSentences,
                                          MoreMaxChars, r)
             IN  /\ GenCount(text, r)
                 /\ more_src' = Some(text)
                 /\ IF NeedTranslation
                    THEN /\ more_text' = Some(m)
                         /\ pc' = "tr_title"
                         /\ UNCHANGED <<idx, qid, target_title, s,
                                        used_en_fallback, place, base_more,
                                        short_text, s_site, ext_site,
                                        norm_place, title_out, enriched,
                                        response, calls, emitted>>
                    ELSE Emit(place[1], short_text[1], m, None, None)
    /\ UNCHANGED <<cfgVars, language, raw, summary_ok, raised_by, geo_err, textVars>>

\* main.py 105-106: await genai.translate_text(place["title"], language);
\* without a description to translate, on to lines 111-114.
TranslateTitle ==
    /\ pc = "tr_title"
    /\ LET text == OrEmpty(place[1].title)
       IN  \E r \in GenDraw(text) :
             LET t1 == translate_text(place[1].title, language, r)
                 p == [place[1] EXCEPT
                           !.title = IF t1 # <<>> THEN Some(t1) ELSE @]
                 tout == TrOut(text # <<>>, r)
             IN  /\ GenCount(text, r)
                 /\ IF Truthy(p.description)
                    THEN /\ place' = Some(p)
                         /\ title_out' = tout
                         /\ pc' = "tr_descr"
                         /\ UNCHANGED <<idx, qid, target_title, s,
                                        used_en_fallback, base_more, short_text,
                                        more_text, s_site, ext_site, norm_place,
                                        enriched, response, calls, emitted>>
                    ELSE Emit(p, short_text[1], more_text[1], tout, None)
    /\ UNCHANGED <<cfgVars, language, raw, summary_ok, more_src, raised_by,
                   geo_err, textVars>>

\* main.py 107-114: await genai.translate_text(place["description"], language)
TranslateDescription ==
    /\ pc = "tr_descr"
    /\ LET text == OrEmpty(place[1].description)
       IN  \E r \in GenDraw(text) :
             LET d1 == translate_text(place[1].description, language, r)
                 p == [place[1] EXCEPT
                           !.description = IF d1 # <<>> THEN Some(d1) ELSE @]
             IN  /\ GenCount(text, r)
                 /\ Emit(p, short_text[1], more_text[1], title_out,
                         TrOut(TRUE, r))
    /\ UNCHANGED <<cfgVars, language, raw, summary_ok, more_src, raised_by,
                   geo_err, textVars>>

Next ==
    \/ GeoSearch
    \/ ResolveQid
    \/ ResolveTitle
    \/ SummaryLocalized
    \/ SummaryEnglish
    \/ ExtractLocalized
    \/ ExtractEnglish
    \/ CondenseShort
    \/ CondenseMore
    \/ TranslateTitle
    \/ TranslateDescription

Spec == Init /\ [][Next]_vars

\* ---------------------------------------------------------- the text runs
\* The characters the drawn texts are made of.
Alphabet == {"a", ".", " ", "\n"}
ShortTexts == UNION {[1..k -> Alphabet] : k \in 0..MaxTextLen}

\* Seven two-character sentences, one space apart.
SevenSentences == join(<<" ">>, [i \in 1..7 |-> <<"a", ".">>])
\* Words of nine letters, one space apart, longer than the short cap.
SpacedText == [i \in 1..(ShortMaxChars + 50) |-> IF i % 10 = 0 THEN " " ELSE "a"]
\* A text without a space, as an extract in Chinese or Japanese is, one
\* character longer than the cap.
Unspaced(max_chars) == Rep("a", max_chars + 1)
LongTexts ==
    {SevenSentences, SpacedText, Unspaced(ShortMaxChars), Unspaced(MoreMaxChars)}

Texts == ShortTexts \cup LongTexts

\* An answer of the backend that ignores the length asked for.
LongAnswer == Ok(Some(Rep("b", MoreMaxChars + 1)))

\* The answers a condensing request over `text` may get in a text run: those
\* of GenResponses and, for a text over the short cap, the long answer.
\* summarize_to_length sends no request when the backend is off or the text
\* is empty.
TextGenDraw(text) ==
    IF enabled /\ text # <<>>
    THEN GenResponses \cup (IF Len(text) > ShortMaxChars THEN {LongAnswer} ELSE {})
    ELSE {Ok(None)}

\* The summary of a text run as normalize returns it: t_text is its title or
\* its extract, the other fields are absent.
TextPlace ==
    [ title       |-> IF t_field = "title" THEN Some(t_text) ELSE None,
      description |-> None,
      extract     |-> IF t_field = "extract" THEN Some(t_text) ELSE None ]

InitText ==
    /\ GEMINI_API_KEY \in ApiKeys
    /\ req_lang = None
    /\ pc = "off"
    /\ LookupEntry
    /\ t_pc = "once"
    /\ t_text \in Texts
    /\ t_field \in {"title", "extract"}
    /\ t_n \in 1..MaxLines
    /\ t_once = None /\ t_twice = None /\ t_wider = None
    /\ t_st = None /\ t_mt = None
    /\ t_short = None /\ t_more = None

\* enforce_lines(t_text, t_n)
EnforceOnce ==
    /\ t_pc = "once"
    /\ t_once' = Some(enforce_lines(t_text, t_n))
    /\ t_pc' = "twice"
    /\ UNCHANGED <<cfgVars, lookupVars, t_text, t_field, t_n, t_twice, t_wider,
                   t_st, t_mt, t_short, t_more>>

\* enforce_lines of the enforced text, at the same count and at the count of
\* main.py 112.
EnforceTwice ==
    /\ t_pc = "twice"
    /\ t_twice' = Some(enforce_lines(t_once[1], t_n))
    /\ t_wider' = Some(enforce_lines(t_once[1], MoreLines))
    /\ t_pc' = "short"
    /\ UNCHANGED <<cfgVars, lookupVars, t_text, t_field, t_n, t_once, t_st,
                   t_mt, t_short, t_more>>

\* main.py 81-96, 111 with no full extract (base_more is None)
CondenseShortText ==
    /\ t_pc = "short"
    /\ LET text == BaseShort(TextPlace)
       IN  \E r \in TextGenDraw(text) :
             LET st == summarize_to_length(text, EN, ShortSentences,
                                           ShortMaxChars, r)
             IN  /\ t_st' = Some(st)
                 /\ t_short' = Some(ShortSummary(st, TextPlace.extract))
    /\ t_pc' = "more"
    /\ UNCHANGED <<cfgVars, lookupVars, t_text, t_field, t_n, t_once, t_twice,
                   t_wider, t_mt, t_more>>

\* main.py 97-102, 112 with no full extract (base_more is None)
CondenseMoreText ==
    /\ t_pc = "more"
    /\ LET text == MoreSource(None, TextPlace)
       IN  \E r \in TextGenDraw(text) :
             LET mt == summarize_to_length(text, EN, MoreSentences,
                                           MoreMaxChars, r)
             IN  /\ t_mt' = Some(mt)
                 /\ t_more' = Some(MoreSummary(mt, t_short[1]))
    /\ t_pc' = "end"
    /\ UNCHANGED <<cfgVars, lookupVars, t_text, t_field, t_n, t_once, t_twice,
                   t_wider, t_st, t_short>>

NextText ==
    \/ EnforceOnce
    \/ EnforceTwice
    \/ CondenseShortText
    \/ CondenseMoreText

SpecText == InitText /\ [][NextText]_vars

\* ------------------------------------------------------------- properties
\* The summary requests issued so far for the current candidate.
SummaryCalls == SelectSeq(calls, LAMBDA e : e.op = "summary")
EmptyResult == [best |-> None, candidates |-> <<>>]
Returned == response # None
\* The record appended last.
LastRecord == enriched[Len(enriched)]

\* C1: for every candidate the summary is fetched localized-then-English.  The
\* localized request is for (LocalizedTitle, targetLang) and is issued only
\* with a LocalizedTitle resolved; the English request is for
\* (candidate.title, "en") and is issued only when there was no localized
\* request or it yielded nothing; and used_en_fallback is true of a record
\* exactly when the summary it is built from came from the English request.
C1_SummaryOrder ==
    /\ Len(SummaryCalls) <= 2
    /\ \A i \in 1..Len(SummaryCalls) :
         LET e == SummaryCalls[i]
         IN  /\ e.site = "localized" =>
                  /\ i = 1
                  /\ Truthy(target_title)
                  /\ e.arg = target_title[1] /\ e.lang = language
             /\ e.site = "english" =>
                  /\ e.arg = raw[idx].title /\ e.lang = EN
                  /\ \/ i = 1 /\ ~Truthy(target_title)
                     \/ /\ i = 2
                        /\ SummaryCalls[1].site = "localized"
                        /\ ~SummaryCalls[1].hit
    /\ pc = "sum_loc" => Truthy(target_title) /\ SummaryCalls = <<>>
    /\ pc = "sum_en" =>
         \/ SummaryCalls = <<>> /\ ~Truthy(target_title)
         \/ /\ Len(SummaryCalls) = 1
            /\ SummaryCalls[1].site = "localized"
            /\ ~SummaryCalls[1].hit
    /\ place # None =>
         /\ used_en_fallback <=> s_site = "english"
         /\ SummaryCalls[Len(SummaryCalls)].site = s_site
         /\ SummaryCalls[Len(SummaryCalls)].hit
    /\ emitted # None => (emitted[1].used_en <=> emitted[1].s_site = "english")

\* A record is being built from the English summary after the localized
\* request yielded nothing.
C1_Witness ==
    /\ place # None /\ used_en_fallback
    /\ Len(SummaryCalls) = 2
    /\ SummaryCalls[1].site = "localized" /\ SummaryCalls[2].site = "english"

\* C2: the returned candidates are exactly the geosearch rows for which a
\* summary fetch returned a payload, in the provider's order; a row without a
\* summary is left out and is not best; with an empty geosearch list, or every
\* row left out, the result is {best: null, candidates: []}.
C2_CandidatesKept ==
    Returned =>
        LET cands == response[1].candidates
            kept == SelectSeq(raw, LAMBDA c : c.pageid \in summary_ok)
        IN  /\ Len(cands) = Len(kept)
            /\ \A i \in 1..Len(cands) : cands[i].pageid = Some(kept[i].pageid)
            /\ response[1].best # None =>
                   response[1].best[1].pageid[1] \in summary_ok
            /\ (raw = <<>> \/ kept = <<>>) =>
                   response[1].best = None /\ Len(cands) = 0

\* The first row was left out and the second returned.
C2_Witness ==
    /\ Returned
    /\ Len(raw) = 2
    /\ Len(response[1].candidates) = 1
    /\ response[1].candidates[1].pageid = Some(2)
    /\ 1 \notin summary_ok

\* C3: with a non-empty list, best is the first record with a non-empty
\* thumbnail_url, or the first record when none has one; best is one of the
\* candidates, and is null only when there are none.
C3_BestIsFirstWithThumbnail ==
    Returned =>
        LET cands == response[1].candidates
            img == {i \in 1..Len(cands) : Truthy(cands[i].thumbnail_url)}
            first == IF img = {} THEN 1
                     ELSE CHOOSE i \in img : \A j \in img : i <= j
        IN  /\ (response[1].best = None) <=> (Len(cands) = 0)
            /\ Len(cands) > 0 => response[1].best = Some(cands[first])

\* Best is the second record: the first has no thumbnail, the second has one.
C3_Witness ==
    /\ Returned
    /\ Len(response[1].candidates) = 2
    /\ ~Truthy(response[1].candidates[1].thumbnail_url)
    /\ Truthy(response[1].candidates[2].thumbnail_url)
    /\ response[1].best = Some(response[1].candidates[2])

\* C4: when the geo-search provider is unreachable or answers with a
\* non-success status, lookup returns {best: null, candidates: []} and raises
\* nothing.
C4_GeoFailureGivesEmptyResult ==
    geo_err => pc = "done" /\ response = Some(EmptyResult)

\* C5: a failure of a per-candidate provider call is turned into "absent" for
\* that call: no such failure leaves the handler as an exception.
C5_CandidateFailureIsAbsorbed ==
    ~(pc = "raised" /\ raised_by \in {"qid", "title"})

\* C7: title and description of an appended record are what the translation
\* backend gave when it was consulted and gave something, which happens only
\* with used_en_fallback and a target language other than "en"; otherwise, and
\* with the backend off, raising or answering nothing, they are the values
\* normalize produced.
C7_TranslationKeepsOrReplaces ==
    emitted # None =>
        LET e == emitted[1]
            tr == e.used_en /\ language # EN
        IN  /\ LastRecord.title =
                   IF e.title_out # None THEN e.title_out ELSE e.norm.title
            /\ LastRecord.description =
                   IF e.descr_out # None THEN e.descr_out
                   ELSE e.norm.description
            /\ ~(tr /\ enabled) => e.title_out = None /\ e.descr_out = None
            /\ Truthy(e.norm.title) => Truthy(LastRecord.title)
            /\ Truthy(e.norm.description) => Truthy(LastRecord.description)

\* The title was replaced by the backend's translation while the translation
\* of the description failed and the description was kept.
C7_Witness ==
    /\ emitted # None
    /\ emitted[1].used_en /\ language # EN
    /\ emitted[1].title_out # None
    /\ LastRecord.title # emitted[1].norm.title
    /\ emitted[1].descr_out = None
    /\ Truthy(emitted[1].norm.description)
    /\ LastRecord.description = emitted[1].norm.description

\* The language a request resolves to: its lang lower-cased, the default
\* without one, "en" when that is not a supported language.
ExpectedLang ==
    LET asked == IF req_lang # None /\ req_lang[1] # <<>>
                 THEN lower(req_lang[1]) ELSE lower(DEFAULT_LANG)
    IN  IF asked \in SUPPORTED_LANGS THEN asked ELSE <<"e", "n">>

\* C6: the condensed short summary has at most 700 characters and 5 lines and
\* the condensed long summary at most 3000 characters and 15 lines, as
\* summarize_to_length returns them (ellipsis included) and after line
\* enforcement, on the backend path and on the clipping path; neither is null
\* in a record.
C6_SummariesWithinCaps ==
    /\ t_st # None => Len(t_st[1]) <= ShortMaxChars
    /\ t_short # None =>
         Len(t_short[1]) <= ShortMaxChars /\ LineCount(t_short[1]) <= ShortLines
    /\ t_mt # None => Len(t_mt[1]) <= MoreMaxChars
    /\ t_more # None =>
         Len(t_more[1]) <= MoreMaxChars /\ LineCount(t_more[1]) <= MoreLines
    /\ t_pc = "end" => t_short # None /\ t_more # None

\* C8: enforce_lines is idempotent for every text and every count n >= 1:
\* enforcing the enforced text again at n, or at the wider count of 15, gives
\* it back; and the long summary lookup derives from the short summary when
\* more_text is empty is that short summary.
C8_EnforceLinesIdempotent ==
    /\ t_twice # None => t_twice = t_once
    /\ t_wider # None => t_wider = t_once
    /\ (t_more # None /\ t_mt = Some(<<>>)) => t_more = t_short

\* A text of more than two sentence units was cut to two lines and enforced
\* again.
C8_Witness ==
    /\ t_twice # None
    /\ t_n = 2
    /\ Len(re_split(t_text)) > 2
    /\ t_once # Some(t_text)
    /\ LineCount(t_once[1]) = 2

\* C9: every returned record, and best, carries the request's resolved target
\* language as lang, also when it was built from the English fallback.
C9_LangIsTargetLanguage ==
    /\ \A i \in 1..Len(enriched) : enriched[i].lang = ExpectedLang
    /\ Returned =>
         /\ \A i \in 1..Len(response[1].candidates) :
              response[1].candidates[i].lang = ExpectedLang
         /\ response[1].best # None => response[1].best[1].lang = ExpectedLang

\* A returned record built from the English fallback, not translated, is
\* tagged with the German target language.
C9_Witness ==
    /\ Returned /\ emitted # None
    /\ emitted[1].used_en /\ emitted[1].title_out = None
    /\ ExpectedLang = DE
    /\ response[1].best # None /\ response[1].best[1].lang = DE

\* C10: within one candidate no provider request is sent twice with the same
\* arguments.
C10_NoRepeatedRequest ==
    \A i, j \in 1..Len(calls) :
        i < j => ~(/\ calls[i].op = calls[j].op
                   /\ calls[i].arg = calls[j].arg
                   /\ calls[i].lang = calls[j].lang)

\* The full-extract requests issued so far for the current candidate.
ExtractCalls == SelectSeq(calls, LAMBDA e : e.op = "extract")
\* The article text full_extract returns for (title, lang) when it has one.
ExtractOf(title, lang) == Some(strip(ExtractBody(title, lang)))

\* C11: extract absence never drops a candidate.  The localized full-extract
\* request is for (LocalizedTitle, targetLang) and is made only with a
\* LocalizedTitle; the English one is for (candidate.title, "en") and is made
\* only when there was no localized request or it returned no text; base_more
\* is the text of the localized request when it returned one, else what the
\* English request returned; the text the long condensing is asked to condense
\* is base_more when it is there, else the summary's extract field; and every
\* processed row that obtained a summary has its record, whatever the extract
\* requests returned.
C11_ExtractAbsenceKeepsCandidate ==
    /\ Len(ExtractCalls) <= 2
    /\ \A i \in 1..Len(ExtractCalls) :
         LET e == ExtractCalls[i]
         IN  /\ e.site = "localized" =>
                  /\ i = 1
                  /\ Truthy(target_title)
                  /\ e.arg = target_title[1] /\ e.lang = language
             /\ e.site = "english" =>
                  /\ e.arg = raw[idx].title /\ e.lang = EN
                  /\ \/ i = 1 /\ ~Truthy(target_title)
                     \/ /\ i = 2
                        /\ ExtractCalls[1].site = "localized"
                        /\ ~ExtractCalls[1].hit
    /\ pc \in {"cond_short", "cond_more", "tr_title", "tr_descr"} =>
         /\ ExtractCalls # <<>>
         /\ Truthy(target_title) => ExtractCalls[1].site = "localized"
         /\ IF ExtractCalls[1].site = "localized" /\ ExtractCalls[1].hit
            THEN /\ Len(ExtractCalls) = 1
                 /\ base_more = ExtractOf(target_title[1], language)
            ELSE LET last == ExtractCalls[Len(ExtractCalls)]
                 IN  /\ last.site = "english"
                     /\ base_more = IF last.hit
                                    THEN ExtractOf(raw[idx].title, EN) ELSE None
    /\ pc \in {"tr_title", "tr_descr"} =>
         more_src = Some(IF base_more # None /\ base_more[1] # <<>>
                         THEN base_more[1]
                         ELSE IF Truthy(norm_place[1].extract)
                              THEN norm_place[1].extract[1] ELSE <<>>)
    /\ emitted # None =>
         LET e == emitted[1]
         IN  /\ more_src = Some(IF e.base_more # None /\ e.base_more[1] # <<>>
                                THEN e.base_more[1]
                                ELSE IF Truthy(e.norm.extract)
                                     THEN e.norm.extract[1] ELSE <<>>)
             /\ e.ext_calls # <<>>
             /\ (e.base_more = None) <=>
                    (\A i \in 1..Len(e.ext_calls) : ~e.ext_calls[i].hit)
             /\ LastRecord.more_summary # None
    /\ \A k \in 1..Len(raw) :
         ((k < idx \/ pc = "done") /\ raw[k].pageid \in summary_ok) =>
             \E i \in 1..Len(enriched) : enriched[i].pageid = Some(raw[k].pageid)

\* A record was appended after the localized and the English full-extract
\* request both returned nothing; the long condensing was given the summary's
\* extract field.
C11_Witness ==
    /\ emitted # None
    /\ Len(emitted[1].ext_calls) = 2
    /\ emitted[1].ext_calls[1].site = "localized" /\ ~emitted[1].ext_calls[1].hit
    /\ emitted[1].ext_calls[2].site = "english" /\ ~emitted[1].ext_calls[2].hit
    /\ emitted[1].base_more = None
    /\ Truthy(emitted[1].norm.extract)
    /\ more_src = emitted[1].norm.extract

=============================================================================
